---- MODULE Spec2Model ----
(***************************************************************************)
(* Model of the two archive loaders of the sensorlab observer:            *)
(*   observer/m_node/m_node_setup.py        (node-profile Loader)         *)
(*   observer/m_node/m_experiment_setup.py  (experiment Loader)           *)
(*                                                                         *)
(* Text is a sequence of atoms.  An atom stands for a fixed run of         *)
(* characters; the atoms used here are such that none is a prefix of       *)
(* another and "/", "<!", "<#", ">" only occur as whole atoms, so that the *)
(* character-wise library functions (commonprefix, split, replace) agree   *)
(* with their atom-wise versions below.                                    *)
(***************************************************************************)
EXTENDS Integers, Sequences, FiniteSets, TLC

VARIABLES kind, archive, document, pc, idx, temp_directory, fs, manifest,
          firmwares, schedule, err, entriesRead, cleans, cleanErr,
          self, peer, solo

vars == <<kind, archive, document, pc, idx, temp_directory, fs, manifest,
          firmwares, schedule, err, entriesRead, cleans, cleanErr,
          self, peer, solo>>

-----------------------------------------------------------------------------
(* Bounds                                                                  *)

MaxExtra == 2

MaxEntries == 2

MaxCleans == 2

-----------------------------------------------------------------------------
(* Python text and os.path functions, as the loaders use them              *)

SEP == "/"

IsPrefix(s, t) == Len(s) <= Len(t) /\ SubSeq(t, 1, Len(s)) = s

StartsWith(s, t) == IsPrefix(t, s)

Tail_(s, n) == SubSeq(s, n + 1, Len(s))

\* str.find: does old occur in s
RECURSIVE Contains(_, _)
Contains(s, old) ==
    IF Len(s) < Len(old) THEN FALSE
    ELSE IF StartsWith(s, old) THEN TRUE
    ELSE Contains(Tail(s), old)

\* replace that matches a token by its delimiters and not by its id
RECURSIVE replace_any_id(_, _, _)
replace_any_id(s, old, new) ==
    IF Len(s) < Len(old) \/ old = <<>> THEN s
    ELSE IF s[1] = old[1] /\ s[Len(old)] = old[Len(old)]
         THEN new \o replace_any_id(Tail_(s, Len(old)), old, new)
         ELSE <<Head(s)>> \o replace_any_id(Tail(s), old, new)

\* str.replace(old, new): every non-overlapping occurrence, left to right
RECURSIVE replace(_, _, _)
replace(s, old, new) ==
    IF Len(s) < Len(old) \/ old = <<>> THEN s
    ELSE IF StartsWith(s, old) THEN new \o replace(Tail_(s, Len(old)), old, new)
    ELSE <<Head(s)>> \o replace(Tail(s), old, new)

\* str.split(sep) for a one-atom separator: the list of the pieces
RECURSIVE split(_, _)
split(s, sep) ==
    IF s = <<>> THEN << <<>> >>
    ELSE IF Head(s) = sep
         THEN << <<>> >> \o split(Tail(s), sep)
         ELSE LET rest == split(Tail(s), sep)
              IN  << <<Head(s)>> \o Head(rest) >> \o Tail(rest)

\* sep.join(list)
RECURSIVE join(_, _)
join(sep, list) ==
    IF list = <<>> THEN <<>>
    ELSE IF Len(list) = 1 THEN Head(list)
    ELSE Head(list) \o sep \o join(sep, Tail(list))

\* str(list of str): "['a', 'b']"
PyStr(list) ==
    <<"[">> \o join(<<", ">>, [i \in 1..Len(list) |-> <<"'">> \o list[i] \o <<"'">>])
            \o <<"]">>

\* os.path.isabs
isabs(p) == p # <<>> /\ Head(p) = SEP

\* os.path.join(a, b)
path_join(a, b) ==
    IF isabs(b) THEN b
    ELSE IF a = <<>> \/ a[Len(a)] = SEP THEN a \o b
    ELSE a \o <<SEP>> \o b

\* the component stack of os.path.normpath for an absolute path
RECURSIVE NormComponents(_, _)
NormComponents(comps, stack) ==
    IF comps = <<>> THEN stack
    ELSE LET c == Head(comps)
         IN  IF c = <<>> \/ c = <<".">> THEN NormComponents(Tail(comps), stack)
             ELSE IF c = <<"..">>
                  THEN NormComponents(Tail(comps),
                          IF stack = <<>> THEN stack
                          ELSE SubSeq(stack, 1, Len(stack) - 1))
                  ELSE NormComponents(Tail(comps), Append(stack, c))

\* os.path.normpath of an absolute path
normpath(p) == <<SEP>> \o join(<<SEP>>, NormComponents(split(p, SEP), <<>>))

\* the process's working directory, used by abspath for relative paths
Cwd == <<SEP>>

\* os.path.abspath
abspath(p) == normpath(IF isabs(p) THEN p ELSE path_join(Cwd, p))

\* os.path.commonprefix([a, b]): the longest common leading run of text
RECURSIVE commonprefix(_, _)
commonprefix(a, b) ==
    IF a = <<>> \/ b = <<>> \/ Head(a) # Head(b) THEN <<>>
    ELSE <<Head(a)>> \o commonprefix(Tail(a), Tail(b))

\* is_within_directory(directory, target) of both loaders
is_within_directory(directory, target) ==
    LET abs_directory == abspath(directory)
        abs_target    == abspath(target)
        prefix        == commonprefix(abs_directory, abs_target)
    IN  prefix = abs_directory

-----------------------------------------------------------------------------
(* Module constants of m_node_setup.py                                     *)

NODE_PROFILE_FILENAME == <<"node-profile.tar.gz">>

CONTROLLER_SUBDIR == <<"controller">>

CONTROLLER_EXECUTABLES_SUBDIR == <<"controller", "/", "executables">>

CONTROLLER_CONFIGURATION_FILES_SUBDIR == <<"controller", "/", "configuration_files">>

SERIAL_SUBDIR == <<"serial">>

PROFILE_MANIFEST == <<"manifest.yml">>

PROFILE_MANDATORY_MEMBERS ==
    << CONTROLLER_SUBDIR,
       CONTROLLER_EXECUTABLES_SUBDIR,
       CONTROLLER_CONFIGURATION_FILES_SUBDIR,
       SERIAL_SUBDIR,
       PROFILE_MANIFEST >>

NODE_MANIFEST_MANDATORY_MEMBERS ==
    << <<"hardware">>,
       <<"controller">>,
       <<"controller", "/", "commands">>,
       <<"controller", "/", "commands", "/", "load">>,
       <<"controller", "/", "commands", "/", "start">>,
       <<"controller", "/", "commands", "/", "stop">>,
       <<"controller", "/", "commands", "/", "reset">>,
       <<"controller", "/", "configuration_files">>,
       <<"serial">>,
       <<"serial", "/", "port">>,
       <<"serial", "/", "baudrate">>,
       <<"serial", "/", "parity">>,
       <<"serial", "/", "stopbits">>,
       <<"serial", "/", "bytesize">>,
       <<"serial", "/", "rtscts">>,
       <<"serial", "/", "xonxoff">>,
       <<"serial", "/", "timeout">>,
       <<"serial", "/", "module">> >>

(* Module constants of m_experiment_setup.py                               *)

EXPERIMENT_PROFILE_FILENAME == <<"behavior.tar.gz">>

FIRMWARES_SUBDIR == <<"firmwares">>

EXPERIMENT_MANIFEST == <<"manifest.yml">>

CONFIGURATION_MANDATORY_MEMBERS == << FIRMWARES_SUBDIR, EXPERIMENT_MANIFEST >>

EXPERIMENT_MANIFEST_MANDATORY_MEMBERS == << <<"firmwares">>, <<"schedule">> >>

\* the constants of the loader under construction
PROFILE_FILENAME_OF(k) ==
    IF k = "node" THEN NODE_PROFILE_FILENAME ELSE EXPERIMENT_PROFILE_FILENAME

ARCHIVE_MANDATORY_OF(k) ==
    IF k = "node" THEN PROFILE_MANDATORY_MEMBERS ELSE CONFIGURATION_MANDATORY_MEMBERS

MANIFEST_NAME_OF(k) == IF k = "node" THEN PROFILE_MANIFEST ELSE EXPERIMENT_MANIFEST

MANIFEST_MANDATORY_OF(k) ==
    IF k = "node" THEN NODE_MANIFEST_MANDATORY_MEMBERS
    ELSE EXPERIMENT_MANIFEST_MANDATORY_MEMBERS

-----------------------------------------------------------------------------
(* The parsed manifest: a tree of mappings, lists and scalars.  nodes maps *)
(* the key path of every node of the tree to its kind; the values the      *)
(* loaders read are kept beside it.                                        *)

Range(f) == {f[i] : i \in DOMAIN f}

\* path.split('/') : the key path of a mandatory manifest member
path_elements(path) == split(path, SEP)

CmdNames == { <<"load">>, <<"start">>, <<"stop">>, <<"reset">> }

P_controller == << <<"controller">> >>

P_commands == << <<"controller">>, <<"commands">> >>

P_executables == << <<"controller">>, <<"executables">> >>

P_configuration_files == << <<"controller">>, <<"configuration_files">> >>

P_serial == << <<"serial">> >>

P_module == << <<"serial">>, <<"module">> >>

P_firmwares == << <<"firmwares">> >>

P_schedule == << <<"schedule">> >>

NodeMapPaths == { <<>>, P_controller, P_commands, P_serial }

NodeListPaths == { P_executables, P_configuration_files }

\* the tree of a node-profile manifest that declares every documented key
NodeTree ==
    LET paths == {<<>>, P_executables}
                   \cup {path_elements(m) : m \in Range(NODE_MANIFEST_MANDATORY_MEMBERS)}
    IN  [p \in paths |-> IF p \in NodeMapPaths THEN "map"
                         ELSE IF p \in NodeListPaths THEN "list"
                         ELSE "str"]

\* the tree of an experiment manifest that declares every documented key
ExperimentTree ==
    [p \in {<<>>, P_firmwares, P_schedule} |-> IF p = <<>> THEN "map" ELSE "list"]

\* the tree without the node at p and everything below it
Without(nodes, p) ==
    [q \in {r \in DOMAIN nodes : ~IsPrefix(p, r)} |-> nodes[q]]

\* the tree with the node at p replaced by a value of kind k (no children)
WithKind(nodes, p, k) ==
    [q \in {r \in DOMAIN nodes : r = p \/ ~IsPrefix(p, r)} |->
        IF q = p THEN k ELSE nodes[q]]

\* value[key] succeeds: value is a mapping that holds key
HasItem(nodes, p, key) ==
    /\ p \in DOMAIN nodes
    /\ nodes[p] = "map"
    /\ Append(p, key) \in DOMAIN nodes

\* bool(value) of a table node: a non-empty list
Truthy(nodes, p, table) == nodes[p] = "list" /\ table # <<>>

NoManifest ==
    [nodes |-> <<>>, commands |-> <<>>, executables |-> <<>>,
     configuration_files |-> <<>>, module |-> <<>>, firmwares |-> <<>>,
     schedule |-> <<>>]

-----------------------------------------------------------------------------
(* Inputs of a load: the members of the archive, in archive order, and the *)
(* document that the YAML parser returns for its manifest.yml              *)

Dir(n) == [name |-> n, type |-> "dir"]

File(n) == [name |-> n, type |-> "file"]

\* the directory mkdtemp creates
TempDir == <<SEP, "tmp", SEP, "ws">>

\* the directory mkdtemp creates for a second loader of the process
TempDir2 == <<SEP, "tmp", SEP, "wt">>

\* one directory used by every loader
mkdtemp_shared(who) == TempDir

\* tempfile.mkdtemp(): a directory of its own for each call
mkdtemp(who) == IF who = "A" THEN TempDir ELSE TempDir2

SeqsUpTo(X, n) == UNION {[1..k -> X] : k \in 0..n}

RECURSIVE Pick(_, _, _)
Pick(seq, S, i) ==
    IF i > Len(seq) THEN <<>>
    ELSE (IF i \in S THEN <<seq[i]>> ELSE <<>>) \o Pick(seq, S, i + 1)

MandatoryArchive(k) ==
    [i \in 1..Len(ARCHIVE_MANDATORY_OF(k)) |->
        IF ARCHIVE_MANDATORY_OF(k)[i] = MANIFEST_NAME_OF(k)
        THEN File(ARCHIVE_MANDATORY_OF(k)[i])
        ELSE Dir(ARCHIVE_MANDATORY_OF(k)[i])]

\* members beyond the mandatory ones: harmless, escaping through "..",
\* absolute, and resolving into a sibling of the workspace named ws + "x"
ExtraMembers ==
    { File(<<"serial", SEP, "..", SEP, "notes">>),
      File(<<"..", SEP, "..", SEP, "etc", SEP, "passwd">>),
      File(<<SEP, "etc", SEP, "passwd">>),
      File(<<"..", SEP, "ws", "x", SEP, "f">>) }

RunSh == File(CONTROLLER_EXECUTABLES_SUBDIR \o <<SEP, "run.sh">>)

NodeCfg == File(CONTROLLER_CONFIGURATION_FILES_SUBDIR \o <<SEP, "node.cfg">>)

AHex == File(FIRMWARES_SUBDIR \o <<SEP, "a.hex">>)

BHex == File(FIRMWARES_SUBDIR \o <<SEP, "b.hex">>)

ExecPool == { [id |-> <<"cmd1">>, file |-> <<"run.sh">>] }

ConfPool == { [id |-> <<"cfg1">>, file |-> <<"node.cfg">>],
              [id |-> <<"cfg2">>, file |-> <<"<#", "cfg1", ">">>] }

FwPool == { [id |-> <<"fw1">>, file |-> <<"a.hex">>],
            [id |-> <<"fw1">>, file |-> <<"b.hex">>],
            [id |-> <<"fw2">>, file |-> <<"b.hex">>] }

StartPool == { <<"<!", "cmd1", ">", " ", "--mode=fast">>,
               <<"<!", "cmd1", ">", " ", "<#", "cfg1", ">">>,
               <<"<#", "cfg2", ">", " ", "<#", "cfg1", ">">> }

Commands(start) ==
    [c \in CmdNames |->
        IF c = <<"start">> THEN start
        ELSE IF c = <<"load">> THEN <<"<!", "cmd1", ">", " ", "<#", "cfg1", ">", " ", "<#", "cfg1", ">">>
        ELSE IF c = <<"stop">> THEN <<"halt">>
        ELSE <<"<#", "cfg1", ">">>]

NodeDoc(nodes, start, execs, confs) ==
    [nodes |-> nodes, commands |-> Commands(start), executables |-> execs,
     configuration_files |-> confs, module |-> <<"decoder.py">>,
     firmwares |-> <<>>, schedule |-> <<>>]

ExperimentDoc(nodes, fws) ==
    [nodes |-> nodes, commands |-> <<>>, executables |-> <<>>,
     configuration_files |-> <<>>, module |-> <<>>,
     firmwares |-> fws, schedule |-> << <<"origin">> >>]

DefaultStart == <<"<!", "cmd1", ">", " ", "<#", "cfg1", ">">>

DefaultConfs == << [id |-> <<"cfg1">>, file |-> <<"node.cfg">>] >>

DefaultDoc(k) ==
    IF k = "node" THEN NodeDoc(NodeTree, DefaultStart, <<>>, DefaultConfs)
    ELSE ExperimentDoc(ExperimentTree, << [id |-> <<"fw1">>, file |-> <<"a.hex">>] >>)

DefaultFiles(k) == IF k = "node" THEN <<NodeCfg>> ELSE <<AHex>>

Input(k, a, d) == [kind |-> k, archive |-> a, document |-> d]

\* archives lacking mandatory members
InputsMembers(k) ==
    { Input(k, Pick(MandatoryArchive(k), S, 1), DefaultDoc(k)) :
        S \in SUBSET (1..Len(MandatoryArchive(k))) }

\* archives with extra members before and after the mandatory ones
InputsExtra(k) ==
    { Input(k, SubSeq(x, 1, n) \o MandatoryArchive(k) \o DefaultFiles(k)
                  \o SubSeq(x, n + 1, Len(x)), DefaultDoc(k)) :
        <<x, n>> \in { <<y, m>> \in SeqsUpTo(ExtraMembers, MaxExtra) \X (0..MaxExtra) :
                          m <= Len(y) } }

\* manifests lacking one key, or holding a scalar where a mapping is expected
InputsSchema(k) ==
    LET tree == IF k = "node" THEN NodeTree ELSE ExperimentTree
        maps == {p \in DOMAIN tree : tree[p] = "map"}
        trees == {Without(tree, p) : p \in DOMAIN tree \ {<<>>}}
                   \cup {WithKind(tree, p, "str") : p \in maps}
    IN  { Input(k, MandatoryArchive(k) \o DefaultFiles(k),
                [DefaultDoc(k) EXCEPT !.nodes = t]) : t \in trees }

\* node-profile manifests: the tables, the start command, the files shipped
InputsNode ==
    LET execTrees == { <<NodeTree, e>> : e \in SeqsUpTo(ExecPool, MaxEntries) }
                       \cup { <<Without(NodeTree, P_executables), <<>> >>,
                              <<WithKind(NodeTree, P_executables, "null"), <<>> >> }
        confKinds == { <<"list", c>> : c \in SeqsUpTo(ConfPool, MaxEntries) }
                       \cup { <<"null", <<>> >> }
    IN  { Input("node", MandatoryArchive("node") \o Pick(<<RunSh, NodeCfg>>, F, 1),
                NodeDoc(WithKind(et[1], P_configuration_files, ck[1]), s, et[2], ck[2])) :
            <<et, ck, s, F>> \in execTrees \X confKinds \X StartPool \X SUBSET {1, 2} }

\* experiment manifests: the firmware table and the files shipped
InputsExperiment ==
    { Input("experiment", MandatoryArchive("experiment") \o Pick(<<AHex, BHex>>, F, 1),
            ExperimentDoc(ExperimentTree, fw)) :
        <<fw, F>> \in SeqsUpTo(FwPool, MaxEntries) \X SUBSET {1, 2} }

\* values of serial/module: a file name, a name with "..", an absolute path
ModulePool == { <<"decoder.py">>,
                <<"..", SEP, "decoder.py">>,
                <<SEP, "etc", SEP, "passwd">> }

\* node-profile manifests: the serial module
InputsSerial ==
    { Input("node", MandatoryArchive("node") \o DefaultFiles("node"),
            [DefaultDoc("node") EXCEPT !.module = m]) : m \in ModulePool }

Inputs ==
    UNION { InputsMembers(k) \cup InputsExtra(k) \cup InputsSchema(k) :
              k \in {"node", "experiment"} }
      \cup InputsNode \cup InputsExperiment \cup InputsSerial

-----------------------------------------------------------------------------
(* The file system, as far as the loaders create and read it               *)

Entry(p, t) == [path |-> p, type |-> t]

\* a file or directory is created at p, replacing what was there
Write(f, p, t) == {e \in f : e.path # p} \cup {Entry(p, t)}

\* os.path.isfile
isfile(f, p) == Entry(normpath(p), "file") \in f

\* p is dir or lies below it (p and dir normalised)
Under(dir, p) == p = dir \/ IsPrefix(dir \o <<SEP>>, p)

\* removes the directory entry alone, leaving what lies below it
rmtree_toplevel(f, dir) == {e \in f : e.path # dir}

\* shutil.rmtree(dir)
rmtree(f, dir) == {e \in f : ~Under(dir, e.path)}

-----------------------------------------------------------------------------
(* Exceptions                                                              *)

NoError == [exc |-> "none", fmt |-> "none", arg |-> <<>>]

Raise(exc, fmt, arg) == [exc |-> exc, fmt |-> fmt, arg |-> arg]

Terminal == {"Ready", "Failed"}

\* no second loader in the process
NoPeer == [pc |-> "none"]

\* no outcome of a load run alone is at hand
NoSolo == [pc |-> "none"]

-----------------------------------------------------------------------------
(* Loader.__init__, step by step                                           *)

Init ==
    /\ \E in \in Inputs :
          /\ kind = in.kind
          /\ archive = in.archive
          /\ document = in.document
    /\ pc = "mkdtemp"
    /\ idx = 1
    /\ temp_directory = <<>>
    /\ fs = {}
    /\ manifest = NoManifest
    /\ firmwares = <<>>
    /\ schedule = <<>>
    /\ err = NoError
    /\ entriesRead = 0
    /\ cleans = 0
    /\ cleanErr = NoError
    /\ self = "A"
    /\ peer = NoPeer
    /\ solo = NoSolo

\* the error is recorded and the loader is handed out as usable
Fail_but_ready(e) ==
    /\ pc' = "Ready"
    /\ err' = e

Fail(e) ==
    /\ pc' = "Failed"
    /\ err' = e

\* self.temp_directory = tempfile.mkdtemp()
Mkdtemp ==
    /\ pc = "mkdtemp"
    /\ temp_directory' = mkdtemp(self)
    /\ fs' = Write(fs, mkdtemp(self), "dir")
    /\ pc' = "save"
    /\ UNCHANGED <<kind, archive, document, idx, manifest, firmwares, schedule,
                   err, entriesRead, cleans, cleanErr,
                   self, peer, solo>>

\* archive.save(archive_path) / shutil.copy(archive, archive_path)
SaveArchive ==
    /\ pc = "save"
    /\ LET archive_path == path_join(temp_directory, PROFILE_FILENAME_OF(kind))
       IN  fs' = Write(fs, normpath(archive_path), "file")
    /\ pc' = "validate_archive"
    /\ UNCHANGED <<kind, archive, document, idx, temp_directory, manifest,
                   firmwares, schedule, err, entriesRead, cleans, cleanErr,
                   self, peer, solo>>

\* archive.getnames()
getnames(a) == [i \in DOMAIN a |-> a[i].name]

\* missing_arguments with the filter dropped: every mandatory name is reported
missing_arguments_unfiltered(archive_contents) == PROFILE_MANDATORY_MEMBERS

\* filter(lambda argument: argument not in archive_contents, PROFILE_MANDATORY_MEMBERS)
missing_arguments(archive_contents) ==
    SelectSeq(PROFILE_MANDATORY_MEMBERS, LAMBDA m : m \notin Range(archive_contents))

\* [elt for elt in CONFIGURATION_MANDATORY_MEMBERS if elt not in archive_contents]
missing_elements(archive_contents) ==
    SelectSeq(CONFIGURATION_MANDATORY_MEMBERS, LAMBDA m : m \notin Range(archive_contents))

\* validate the archive content
ValidateArchive ==
    /\ pc = "validate_archive"
    /\ LET archive_contents == getnames(archive)
       IN  IF \E m \in Range(ARCHIVE_MANDATORY_OF(kind)) : m \notin Range(archive_contents)
           THEN /\ Fail(IF kind = "node"
                        THEN Raise("NodeSetupException", "ERROR_MISSING_ARGUMENT_IN_ARCHIVE",
                                   join(<<" ,">>, missing_arguments(archive_contents)))
                        ELSE Raise("ExperimentSetupException", "ERROR_MISSING_ARGUMENT_IN_ARCHIVE",
                                   <<"missing elements: ">>
                                     \o PyStr(missing_elements(archive_contents))
                                     \o <<" of archive_contents: ">>
                                     \o PyStr(archive_contents)))
                /\ UNCHANGED idx
           ELSE /\ pc' = "safe_extract"
                /\ idx' = 1
                /\ UNCHANGED err
    /\ UNCHANGED <<kind, archive, document, temp_directory, fs, manifest,
                   firmwares, schedule, entriesRead, cleans, cleanErr,
                   self, peer, solo>>

\* safe_extract as a single pass: each member is written as soon as it passes
SafeExtractCheckThenWrite ==
    /\ pc = "safe_extract"
    /\ LET member      == archive[idx]
           member_path == path_join(temp_directory, member.name)
       IN  IF ~is_within_directory(temp_directory, member_path)
           THEN /\ Fail(Raise("Exception", "Attempted Path Traversal in Tar File", <<>>))
                /\ UNCHANGED <<idx, fs>>
           ELSE /\ fs' = Write(fs, normpath(member_path), member.type)
                /\ pc' = IF idx = Len(archive) THEN "read_manifest" ELSE "safe_extract"
                /\ idx' = IF idx = Len(archive) THEN 1 ELSE idx + 1
                /\ UNCHANGED err
    /\ UNCHANGED <<kind, archive, document, temp_directory, manifest,
                   firmwares, schedule, entriesRead, cleans, cleanErr,
                   self, peer, solo>>

\* safe_extract, first loop: one member is checked, nothing is written
SafeExtractCheck ==
    /\ pc = "safe_extract"
    /\ LET member      == archive[idx]
           member_path == path_join(temp_directory, member.name)
       IN  IF ~is_within_directory(temp_directory, member_path)
           THEN /\ Fail(Raise("Exception", "Attempted Path Traversal in Tar File", <<>>))
                /\ UNCHANGED idx
           ELSE /\ pc' = IF idx = Len(archive) THEN "extractall" ELSE "safe_extract"
                /\ idx' = IF idx = Len(archive) THEN 1 ELSE idx + 1
                /\ UNCHANGED err
    /\ UNCHANGED <<kind, archive, document, temp_directory, fs, manifest,
                   firmwares, schedule, entriesRead, cleans, cleanErr,
                   self, peer, solo>>

\* tar.extractall(path): one member is written at path/name
Extractall ==
    /\ pc = "extractall"
    /\ LET member == archive[idx]
       IN  fs' = Write(fs, normpath(path_join(temp_directory, member.name)), member.type)
    /\ pc' = IF idx = Len(archive) THEN "read_manifest" ELSE "extractall"
    /\ idx' = IF idx = Len(archive) THEN 1 ELSE idx + 1
    /\ UNCHANGED <<kind, archive, document, temp_directory, manifest, firmwares,
                   schedule, err, entriesRead, cleans, cleanErr,
                   self, peer, solo>>

\* read the manifest: open(...) and yaml.load
ReadManifest ==
    /\ pc = "read_manifest"
    /\ IF isfile(fs, path_join(temp_directory, MANIFEST_NAME_OF(kind)))
       THEN /\ manifest' = document
            /\ pc' = "validate_manifest"
            /\ UNCHANGED err
       ELSE /\ Fail(Raise("OSError", "open", MANIFEST_NAME_OF(kind)))
            /\ UNCHANGED manifest
    /\ idx' = 1
    /\ UNCHANGED <<kind, archive, document, temp_directory, fs, firmwares,
                   schedule, entriesRead, cleans, cleanErr,
                   self, peer, solo>>

\* Walk with the exception swallowed instead of raised
WalkNoRaise(nodes, iterator, elements) == <<>>

\* the inner loop of the manifest validation: iterator = iterator[element]
\* for each element; the result is <<>> when every element resolves and
\* <<element>> for the first one that raises
RECURSIVE Walk(_, _, _)
Walk(nodes, iterator, elements) ==
    IF elements = <<>> THEN <<>>
    ELSE IF HasItem(nodes, iterator, Head(elements))
         THEN Walk(nodes, Append(iterator, Head(elements)), Tail(elements))
         ELSE <<Head(elements)>>

\* validate the manifest: one path of the mandatory list is walked
ValidateManifest ==
    /\ pc = "validate_manifest"
    /\ LET path   == MANIFEST_MANDATORY_OF(kind)[idx]
           failed == Walk(manifest.nodes, <<>>, path_elements(path))
           last   == idx = Len(MANIFEST_MANDATORY_OF(kind))
       IN  IF failed # <<>>
           THEN /\ Fail(IF kind = "node"
                        THEN Raise("NodeSetupException", "ERROR_MISSING_ARGUMENT_IN_MANIFEST",
                                   failed[1])
                        ELSE Raise("ExperimentSetupException", "ERROR_MISSING_ARGUMENT_IN_ARCHIVE",
                                   <<"element missing: ">> \o failed[1] \o <<" in: ">> \o path))
                /\ UNCHANGED idx
           ELSE /\ pc' = IF ~last THEN "validate_manifest"
                         ELSE IF kind = "node" THEN "executables" ELSE "firmwares"
                /\ idx' = IF last THEN 1 ELSE idx + 1
                /\ UNCHANGED err
    /\ UNCHANGED <<kind, archive, document, temp_directory, fs, manifest,
                   firmwares, schedule, entriesRead, cleans, cleanErr,
                   self, peer, solo>>

\* the exception of value[key] when it fails
ItemError(nodes, p, key) ==
    IF p \in DOMAIN nodes /\ nodes[p] = "map"
    THEN Raise("KeyError", "key", key)
    ELSE Raise("TypeError", "subscript", key)

\* number of characters of a command name
KeyChars(c) == IF c \in {<<"load">>, <<"stop">>} THEN 4 ELSE 5

\* replace placeholders and complete path names in executables entries.
\* The inner loop iterates the commands mapping itself, that is its keys, and
\* unpacks each key into (cmd_name, cmd): a key that is not two characters
\* long raises ValueError before any command is rewritten.
Executables ==
    /\ pc = "executables"
    /\ LET nodes == manifest.nodes
       IN  IF ~HasItem(nodes, P_controller, <<"executables">>)
           THEN /\ Fail(ItemError(nodes, P_controller, <<"executables">>))
                /\ UNCHANGED entriesRead
           ELSE IF ~Truthy(nodes, P_executables, manifest.executables)
           THEN /\ pc' = "configuration_files"
                /\ UNCHANGED <<err, entriesRead>>
           ELSE /\ entriesRead' = entriesRead + 1
                /\ IF ~HasItem(nodes, P_controller, <<"commands">>)
                   THEN Fail(ItemError(nodes, P_controller, <<"commands">>))
                   ELSE IF \E c \in DOMAIN manifest.commands : KeyChars(c) # 2
                   THEN Fail(Raise("ValueError", "unpack", <<>>))
                   ELSE Fail(Raise("RuntimeError", "dictionary changed size", <<>>))
    /\ idx' = 1
    /\ UNCHANGED <<kind, archive, document, temp_directory, fs, manifest,
                   firmwares, schedule, cleans, cleanErr,
                   self, peer, solo>>

\* '<#{0}>'.format(cid)
ConfToken(cid) == <<"<#">> \o cid \o <<">">>

\* '<!{0}>'.format(eid)
ExecToken(eid) == <<"<!">> \o eid \o <<">">>

\* replace placeholders and complete path names in configuration file
\* entries: one entry of the table is applied to every command
ConfigurationFiles ==
    /\ pc = "configuration_files"
    /\ LET nodes == manifest.nodes
       IN  IF ~HasItem(nodes, P_controller, <<"configuration_files">>)
           THEN /\ Fail(ItemError(nodes, P_controller, <<"configuration_files">>))
                /\ UNCHANGED <<idx, manifest, entriesRead>>
           ELSE IF ~Truthy(nodes, P_configuration_files, manifest.configuration_files)
           THEN /\ pc' = "serial"
                /\ UNCHANGED <<idx, err, manifest, entriesRead>>
           ELSE LET configuration_file == manifest.configuration_files[idx]
                    cid   == configuration_file.id
                    cfile == configuration_file.file
                    configuration_files_dir ==
                        path_join(temp_directory, CONTROLLER_CONFIGURATION_FILES_SUBDIR)
                    last  == idx = Len(manifest.configuration_files)
                IN  /\ entriesRead' = entriesRead + 1
                    /\ IF ~HasItem(nodes, P_controller, <<"commands">>)
                       THEN /\ Fail(ItemError(nodes, P_controller, <<"commands">>))
                            /\ UNCHANGED <<idx, manifest>>
                       ELSE /\ manifest' =
                                 [manifest EXCEPT !.commands =
                                    [c \in DOMAIN manifest.commands |->
                                       replace(manifest.commands[c], ConfToken(cid),
                                               path_join(configuration_files_dir, cfile))]]
                            /\ pc' = IF last THEN "serial" ELSE "configuration_files"
                            /\ idx' = IF last THEN 1 ELSE idx + 1
                            /\ UNCHANGED err
    /\ UNCHANGED <<kind, archive, document, temp_directory, fs, firmwares,
                   schedule, cleans, cleanErr,
                   self, peer, solo>>

\* self.manifest['serial']['module'] = os.path.join(serial_directory, ...)
SerialModule ==
    /\ pc = "serial"
    /\ LET nodes == manifest.nodes
           serial_directory == path_join(temp_directory, SERIAL_SUBDIR)
       IN  IF ~HasItem(nodes, P_serial, <<"module">>)
           THEN /\ Fail(ItemError(nodes, P_serial, <<"module">>))
                /\ UNCHANGED manifest
           ELSE /\ manifest' = [manifest EXCEPT !.module =
                                   path_join(serial_directory, manifest.module)]
                /\ pc' = "Ready"
                /\ UNCHANGED err
    /\ UNCHANGED <<kind, archive, document, idx, temp_directory, fs, firmwares,
                   schedule, entriesRead, cleans, cleanErr,
                   self, peer, solo>>

\* d.setdefault(key, value): an id already present keeps its value
SetItem_keep_first(d, key, value) ==
    [x \in DOMAIN d \cup {key} |-> IF x \in DOMAIN d THEN d[x] ELSE value]

\* d[key] = value on a dict
SetItem(d, key, value) ==
    [x \in DOMAIN d \cup {key} |-> IF x = key THEN value ELSE d[x]]

\* register firmwares: one entry of the table
RegisterFirmware ==
    /\ pc = "firmwares"
    /\ LET nodes == manifest.nodes
           firmwares_dir == path_join(temp_directory, FIRMWARES_SUBDIR)
       IN  IF ~HasItem(nodes, <<>>, <<"firmwares">>)
           THEN /\ Fail(ItemError(nodes, <<>>, <<"firmwares">>))
                /\ UNCHANGED <<idx, firmwares, entriesRead>>
           ELSE IF manifest.firmwares = <<>>
           THEN /\ pc' = "schedule"
                /\ UNCHANGED <<idx, err, firmwares, entriesRead>>
           ELSE LET firmware == manifest.firmwares[idx]
                    fid   == firmware.id
                    ffile == firmware.file
                    last  == idx = Len(manifest.firmwares)
                IN  /\ entriesRead' = entriesRead + 1
                    /\ firmwares' = SetItem(firmwares, fid, path_join(firmwares_dir, ffile))
                    /\ IF ~isfile(fs, firmwares'[fid])
                       THEN /\ Fail(Raise("ExperimentSetupException",
                                          "ERROR_MISSING_ARGUMENT_IN_ARCHIVE", ffile))
                            /\ UNCHANGED idx
                       ELSE /\ pc' = IF last THEN "schedule" ELSE "firmwares"
                            /\ idx' = IF last THEN 1 ELSE idx + 1
                            /\ UNCHANGED err
    /\ UNCHANGED <<kind, archive, document, temp_directory, fs, manifest,
                   schedule, cleans, cleanErr,
                   self, peer, solo>>

\* register the schedule
RegisterSchedule ==
    /\ pc = "schedule"
    /\ IF ~HasItem(manifest.nodes, <<>>, <<"schedule">>)
       THEN /\ Fail(ItemError(manifest.nodes, <<>>, <<"schedule">>))
            /\ UNCHANGED schedule
       ELSE /\ schedule' = manifest.schedule
            /\ pc' = "Ready"
            /\ UNCHANGED err
    /\ UNCHANGED <<kind, archive, document, idx, temp_directory, fs, manifest,
                   firmwares, entriesRead, cleans, cleanErr,
                   self, peer, solo>>

\* Loader.clean, called on a constructed Loader
Clean ==
    /\ pc = "Ready"
    /\ cleans < MaxCleans
    /\ cleans' = cleans + 1
    /\ IF Entry(temp_directory, "dir") \in fs
       THEN /\ fs' = rmtree(fs, temp_directory)
            /\ cleanErr' = NoError
       ELSE /\ cleanErr' = Raise("FileNotFoundError", "rmtree", temp_directory)
            /\ UNCHANGED fs
    /\ UNCHANGED <<kind, archive, document, pc, idx, temp_directory, manifest,
                   firmwares, schedule, err, entriesRead,
                   self, peer, solo>>

Next ==
    \/ Mkdtemp
    \/ SaveArchive
    \/ ValidateArchive
    \/ SafeExtractCheck
    \/ Extractall
    \/ ReadManifest
    \/ ValidateManifest
    \/ Executables
    \/ ConfigurationFiles
    \/ SerialModule
    \/ RegisterFirmware
    \/ RegisterSchedule
    \/ Clean

Spec == Init /\ [][Next]_vars

-----------------------------------------------------------------------------
(* Two loaders in one process                                              *)
(*                                                                         *)
(* The variables of a loader other than fs are the fields of one Loader    *)
(* object.  With two loaders, the variables hold the object of the loader  *)
(* that runs and peer holds the object of the other one; fs is the one     *)
(* disk both use.  Each loader is first run alone on a disk of its own and *)
(* its outcome kept in solo; then both run again, interleaved.             *)

\* the Loader object of the running loader
Private ==
    [kind |-> kind, archive |-> archive, document |-> document, pc |-> pc,
     idx |-> idx, temp_directory |-> temp_directory, manifest |-> manifest,
     firmwares |-> firmwares, schedule |-> schedule, err |-> err,
     entriesRead |-> entriesRead, cleans |-> cleans, cleanErr |-> cleanErr,
     solo |-> solo]

\* a Loader whose constructor has been called on an input and not yet run
NotStarted(in, alone) ==
    [kind |-> in.kind, archive |-> in.archive, document |-> in.document,
     pc |-> "mkdtemp", idx |-> 1, temp_directory |-> <<>>,
     manifest |-> NoManifest, firmwares |-> <<>>, schedule |-> <<>>,
     err |-> NoError, entriesRead |-> 0, cleans |-> 0, cleanErr |-> NoError,
     solo |-> alone]

\* the loader whose object is r runs from here on
Resume(r) ==
    /\ kind' = r.kind
    /\ archive' = r.archive
    /\ document' = r.document
    /\ pc' = r.pc
    /\ idx' = r.idx
    /\ temp_directory' = r.temp_directory
    /\ manifest' = r.manifest
    /\ firmwares' = r.firmwares
    /\ schedule' = r.schedule
    /\ err' = r.err
    /\ entriesRead' = r.entriesRead
    /\ cleans' = r.cleans
    /\ cleanErr' = r.cleanErr
    /\ solo' = r.solo

\* what a load hands to its caller
OutcomeOf(r) ==
    [pc |-> r.pc, err |-> r.err, manifest |-> r.manifest,
     firmwares |-> r.firmwares, schedule |-> r.schedule]

Other(who) == IF who = "A" THEN "B" ELSE "A"

\* archive members aimed at the firmwares directory of a workspace
AimedAt(dir) ==
    File(<<"..", SEP, dir[Len(dir)], SEP>> \o FIRMWARES_SUBDIR \o <<SEP, "a.hex">>)

\* the loads run side by side
TwoInputs ==
    { Input("experiment", MandatoryArchive("experiment") \o <<AHex>>,
            DefaultDoc("experiment")),
      Input("experiment", MandatoryArchive("experiment"),
            DefaultDoc("experiment")),
      Input("experiment", MandatoryArchive("experiment") \o <<AimedAt(TempDir)>>,
            DefaultDoc("experiment")),
      Input("experiment", MandatoryArchive("experiment") \o <<AimedAt(TempDir2)>>,
            DefaultDoc("experiment")),
      Input("node", MandatoryArchive("node") \o <<NodeCfg>>,
            NodeDoc(NodeTree, DefaultStart, <<>>, DefaultConfs)) }

InitTwo ==
    /\ \E a, b \in TwoInputs :
          /\ kind = a.kind
          /\ archive = a.archive
          /\ document = a.document
          /\ peer = NotStarted(b, NoSolo)
    /\ pc = "mkdtemp"
    /\ idx = 1
    /\ temp_directory = <<>>
    /\ fs = {}
    /\ manifest = NoManifest
    /\ firmwares = <<>>
    /\ schedule = <<>>
    /\ err = NoError
    /\ entriesRead = 0
    /\ cleans = 0
    /\ cleanErr = NoError
    /\ self = "A"
    /\ solo = NoSolo

\* the load has run alone, on a disk no other loader uses: its outcome is
\* kept and the same load starts again, on the disk it shares with the peer
RunAgain ==
    /\ peer # NoPeer
    /\ solo = NoSolo
    /\ pc \in Terminal
    /\ Resume(NotStarted([kind |-> kind, archive |-> archive,
                          document |-> document], OutcomeOf(Private)))
    /\ fs' = {}
    /\ UNCHANGED <<self, peer>>

\* the scheduler hands the processor to the other loader; while a loader
\* runs alone the other one has not begun
Switch ==
    /\ peer # NoPeer
    /\ solo # NoSolo
    /\ peer.solo # NoSolo \/ pc = "mkdtemp"
    /\ Resume(peer)
    /\ peer' = Private
    /\ self' = Other(self)
    /\ UNCHANGED fs

NextTwo ==
    \/ Next
    \/ RunAgain
    \/ Switch

SpecTwo == InitTwo /\ [][NextTwo]_vars

-----------------------------------------------------------------------------
(* Notions the properties are stated with                                  *)

\* p lies inside directory dir (both normalised): dir itself or below it
LiesInside(dir, p) ==
    \/ p = dir
    \/ Len(p) > Len(dir) /\ SubSeq(p, 1, Len(dir)) = dir /\ p[Len(dir) + 1] = SEP

\* where a member named n lands when extracted into the workspace
Destination(n) == normpath(path_join(TempDir, n))

\* what a load leaves on disk before anything is extracted
BeforeExtraction ==
    { Entry(TempDir, "dir"),
      Entry(normpath(path_join(TempDir, PROFILE_FILENAME_OF(kind))), "file") }

\* the mandatory archive members that the archive does not hold
AbsentMandatory ==
    { m \in Range(ARCHIVE_MANDATORY_OF(kind)) :
        \A i \in DOMAIN archive : archive[i].name # m }

\* every member of the archive lands inside the workspace
ArchiveSafe ==
    \A i \in DOMAIN archive : LiesInside(TempDir, Destination(archive[i].name))

\* the key path of a mandatory manifest member resolves in the tree
Resolves(nodes, m) == path_elements(m) \in DOMAIN nodes

SchemaHolds(nodes) ==
    \A m \in Range(MANIFEST_MANDATORY_OF(kind)) : Resolves(nodes, m)

\* the first mandatory member that does not resolve, and its first segment
\* that is not found
FirstUnresolved(nodes) ==
    LET M == MANIFEST_MANDATORY_OF(kind)
    IN  CHOOSE i \in DOMAIN M :
           /\ ~Resolves(nodes, M[i])
           /\ \A j \in 1..(i - 1) : Resolves(nodes, M[j])

FirstMissingSegment(nodes, m) ==
    LET el == path_elements(m)
        j  == CHOOSE n \in DOMAIN el :
                 /\ SubSeq(el, 1, n) \notin DOMAIN nodes
                 /\ \A q \in 1..(n - 1) : SubSeq(el, 1, q) \in DOMAIN nodes
    IN  el[j]

\* the error a loader raises for a missing mandatory archive member
IsMissingMemberError(e) ==
    /\ e.fmt = "ERROR_MISSING_ARGUMENT_IN_ARCHIVE"
    /\ IF kind = "node" THEN e.exc = "NodeSetupException"
       ELSE e.exc = "ExperimentSetupException"
              /\ e.arg # <<>> /\ e.arg[1] = "missing elements: "

\* the error a loader raises for a missing mandatory manifest member
IsMissingFieldError(e) ==
    IF kind = "node"
    THEN e.exc = "NodeSetupException" /\ e.fmt = "ERROR_MISSING_ARGUMENT_IN_MANIFEST"
    ELSE e.exc = "ExperimentSetupException"
           /\ e.arg # <<>> /\ e.arg[1] = "element missing: "

\* the list of names a printed Python list of strings shows
ParsePyStr(t) ==
    LET pieces == split(SubSeq(t, 2, Len(t) - 1), ", ")
    IN  [i \in DOMAIN pieces |-> SubSeq(pieces[i], 2, Len(pieces[i]) - 1)]

\* the list of missing names that a missing-member error shows
ReportedMissing(e) ==
    IF kind = "node" THEN split(e.arg, " ,")
    ELSE LET n == CHOOSE i \in DOMAIN e.arg : e.arg[i] = " of archive_contents: "
         IN  ParsePyStr(SubSeq(e.arg, 2, n - 1))

\* the resolved path of a table entry's file
ExecPath(e) == TempDir \o <<SEP>> \o CONTROLLER_EXECUTABLES_SUBDIR \o <<SEP>> \o e.file

ConfPath(e) == TempDir \o <<SEP>> \o CONTROLLER_CONFIGURATION_FILES_SUBDIR \o <<SEP>> \o e.file

FwPath(e) == TempDir \o <<SEP>> \o FIRMWARES_SUBDIR \o <<SEP>> \o e.file

IsRegularFile(p) == Entry(p, "file") \in fs

\* the archive ships the file of every declared entry
DeclaredFilesShipped ==
    /\ \A e \in Range(document.executables) :
          \E i \in DOMAIN archive :
             archive[i] = File(CONTROLLER_EXECUTABLES_SUBDIR \o <<SEP>> \o e.file)
    /\ \A e \in Range(document.configuration_files) :
          \E i \in DOMAIN archive :
             archive[i] = File(CONTROLLER_CONFIGURATION_FILES_SUBDIR \o <<SEP>> \o e.file)
    /\ \A e \in Range(document.firmwares) :
          \E i \in DOMAIN archive :
             archive[i] = File(FIRMWARES_SUBDIR \o <<SEP>> \o e.file)

\* a node-profile archive with nothing wrong in it
WellFormedNodeProfile ==
    /\ kind = "node"
    /\ AbsentMandatory = {}
    /\ ArchiveSafe
    /\ SchemaHolds(document.nodes)
    /\ DeclaredFilesShipped

\* a command with every token of every entry of a table replaced
RECURSIVE Resolved(_, _, _)
Resolved(cmd, table, kindOfToken) ==
    IF table = <<>> THEN cmd
    ELSE LET e == Head(table)
         IN  Resolved(IF kindOfToken = "!"
                      THEN replace(cmd, <<"<!">> \o e.id \o <<">">>, ExecPath(e))
                      ELSE replace(cmd, <<"<#">> \o e.id \o <<">">>, ConfPath(e)),
                      Tail(table), kindOfToken)

\* the commands the document declares, with both tables resolved
ExpectedCommand(c) ==
    Resolved(Resolved(document.commands[c], document.executables, "!"),
             document.configuration_files, "#")

LoadOver == pc \in Terminal /\ cleans = 0

-----------------------------------------------------------------------------
(* Properties                                                              *)

\* C1: whatever the member names of the archive, no file or directory that
\* a load has put on disk lies outside the workspace directory.
C1_NoFileOutsideWorkspace ==
    \A e \in fs : LiesInside(TempDir, e.path)

\* C2: extraction is check-all-then-write: when some member of the archive
\* fails the within-workspace check, no member is ever written (whatever the
\* position of that member) and the load does not get past safe_extract.
C2_CheckAllThenWrite ==
    (\E i \in DOMAIN archive :
        ~is_within_directory(TempDir, path_join(TempDir, archive[i].name)))
    => /\ fs \subseteq BeforeExtraction
       /\ pc \in {"mkdtemp", "save", "validate_archive", "safe_extract", "Failed"}

\* C2 witness: the load has failed on the last member of the archive, after
\* the members before it passed the check, and nothing has been written.
C2_Witness ==
    /\ pc = "Failed"
    /\ err.exc = "Exception"
    /\ idx = Len(archive)
    /\ idx > Len(ARCHIVE_MANDATORY_OF(kind))
    /\ fs = BeforeExtraction

\* C3: a well-formed node-profile archive (its tables declared, every
\* declared file shipped) loads: the construction ends Ready and every
\* declared executable and configuration file is a regular file at its
\* absolute path.
C3_WellFormedNodeProfileLoads ==
    (WellFormedNodeProfile /\ P_executables \in DOMAIN document.nodes /\ LoadOver)
    => /\ pc = "Ready"
       /\ \A e \in Range(document.executables) :
             isabs(ExecPath(e)) /\ IsRegularFile(ExecPath(e))
       /\ \A e \in Range(document.configuration_files) :
             isabs(ConfPath(e)) /\ IsRegularFile(ConfPath(e))

\* C4: when a well-formed node profile declares executables, the load ends
\* Ready and in every command each '<!id>' has been replaced by
\* <workspace>/controller/executables/<file>, the rest being unchanged.
C4_ExecutablePlaceholdersResolved ==
    (WellFormedNodeProfile /\ document.executables # <<>> /\ LoadOver)
    => /\ pc = "Ready"
       /\ \A c \in CmdNames :
             /\ manifest.commands[c] = ExpectedCommand(c)
             /\ \A e \in Range(document.executables) :
                   ~Contains(manifest.commands[c], <<"<!">> \o e.id \o <<">">>)

\* C5: a load ends Ready only if the file of every declared firmware,
\* executable and configuration-file entry is a regular file at its resolved
\* path inside the workspace; a load that gets to the entries while a declared
\* file is absent fails with an error naming the declared file.  (Node
\* profiles are taken with an empty executables table; C3 and C4 are about
\* the others.)
C5_DeclaredFilesMustExist ==
    LET entries == {<<e, FwPath(e)>> : e \in Range(document.firmwares)}
                     \cup {<<e, ExecPath(e)>> : e \in Range(document.executables)}
                     \cup {<<e, ConfPath(e)>> : e \in Range(document.configuration_files)}
        absent  == {x \in entries : ~IsRegularFile(x[2])}
    IN  (/\ LoadOver /\ AbsentMandatory = {} /\ ArchiveSafe /\ SchemaHolds(document.nodes)
         /\ kind = "node" => /\ P_executables \in DOMAIN document.nodes
                             /\ document.executables = <<>>)
        => IF absent = {}
           THEN \A x \in entries : LiesInside(TempDir, normpath(x[2]))
           ELSE /\ pc = "Failed"
                /\ \E x \in absent : err.arg = x[1].file

\* C6: when a mandatory manifest path does not resolve, the load fails with
\* the missing-field error and no table entry has been read, no firmware
\* registered and no command rewritten.
C6_SchemaBeforeReferences ==
    ~SchemaHolds(document.nodes)
    => /\ entriesRead = 0
       /\ firmwares = <<>>
       /\ manifest.commands \in {<<>>, document.commands}
       /\ pc \notin {"executables", "configuration_files", "serial", "firmwares",
                     "schedule", "Ready"}
       /\ (pc = "Failed" /\ manifest # NoManifest) => IsMissingFieldError(err)

\* C6 witness: a manifest that declares table entries has been rejected for
\* a missing mandatory path that is not the first of the list.
C6_Witness ==
    /\ pc = "Failed"
    /\ IsMissingFieldError(err)
    /\ idx > 1
    /\ document.configuration_files \o document.firmwares # <<>>
    /\ entriesRead = 0

\* C7: the schema walk stops at the first mandatory path that does not
\* resolve (paths after it are not walked) and its error carries both the
\* first segment that is not found and the full path being resolved.
C7_SchemaWalkFailFast ==
    (pc = "Failed" /\ manifest # NoManifest /\ ~SchemaHolds(manifest.nodes))
    => LET i    == FirstUnresolved(manifest.nodes)
           path == MANIFEST_MANDATORY_OF(kind)[i]
       IN  /\ IsMissingFieldError(err)
           /\ idx = i
           /\ Contains(err.arg, FirstMissingSegment(manifest.nodes, path))
           /\ Contains(err.arg, path)

\* C8: once the archive content has been validated, the load has failed with
\* the missing-member error exactly when a mandatory member is absent; the
\* error lists every absent mandatory name once and no other name, and
\* nothing has been extracted.
C8_MissingMembersReported ==
    pc \notin {"mkdtemp", "save", "validate_archive"}
    => IF AbsentMandatory # {}
       THEN /\ pc = "Failed"
            /\ IsMissingMemberError(err)
            /\ Range(ReportedMissing(err)) = AbsentMandatory
            /\ Len(ReportedMissing(err)) = Cardinality(AbsentMandatory)
            /\ fs = BeforeExtraction
       ELSE ~(kind = "experiment" /\ err.arg # <<>> /\ err.arg[1] = "missing elements: ")
            /\ ~(kind = "node" /\ err.fmt = "ERROR_MISSING_ARGUMENT_IN_ARCHIVE")

\* C8 witness: a load has failed for an archive that lacks some mandatory
\* members and holds others.
C8_Witness ==
    /\ pc = "Failed"
    /\ IsMissingMemberError(err)
    /\ Cardinality(AbsentMandatory) >= 2
    /\ archive # <<>>

\* C9: a start command holding both '<!cmd1>' and '<#cfg1>', in a
\* well-formed node profile declaring both ids, has both tokens replaced by
\* their resolved paths when the load is over.
C9_BothTokensResolved ==
    (/\ WellFormedNodeProfile
     /\ LoadOver
     /\ document.commands[<<"start">>] = <<"<!", "cmd1", ">", " ", "<#", "cfg1", ">">>
     /\ document.executables = << [id |-> <<"cmd1">>, file |-> <<"run.sh">>] >>
     /\ document.configuration_files = << [id |-> <<"cfg1">>, file |-> <<"node.cfg">>] >>)
    => /\ pc = "Ready"
       /\ manifest.commands[<<"start">>] =
             ExecPath(document.executables[1]) \o <<" ">>
               \o ConfPath(document.configuration_files[1])

\* C10: a well-formed node profile whose manifest has no controller/executables
\* table (key absent, or present and empty) loads, and its commands are the
\* declared ones with the configuration-file placeholders resolved.
C10_OptionalExecutablesSkipped ==
    (WellFormedNodeProfile /\ document.executables = <<>> /\ LoadOver)
    => /\ pc = "Ready"
       /\ \A c \in CmdNames :
             manifest.commands[c] =
                Resolved(document.commands[c], document.configuration_files, "#")

\* number of occurrences of the text t in s
RECURSIVE Count(_, _)
Count(s, t) ==
    IF Len(s) < Len(t) THEN 0
    ELSE IF SubSeq(s, 1, Len(t)) = t THEN 1 + Count(SubSeq(s, Len(t) + 1, Len(s)), t)
    ELSE Count(Tail(s), t)

\* the ids that occur in the tokens of the commands
TokenIds == { <<"cmd1">>, <<"cfg1">>, <<"cfg2">> }

\* the tokens whose id has no entry in the table of their kind
UnknownTokens ==
    { <<"<!">> \o i \o <<">">> :
        i \in {j \in TokenIds : \A e \in Range(document.executables) : e.id # j} }
    \cup
    { <<"<#">> \o i \o <<">">> :
        i \in {j \in TokenIds : \A e \in Range(document.configuration_files) : e.id # j} }

\* C11: a token '<!id>' or '<#id>' whose id has no entry in the table of its
\* kind stays in its command string through the whole load, and a well-formed
\* node profile holding such tokens (executables table empty) still loads.
C11_UnknownTokensLeftVerbatim ==
    /\ (kind = "node" /\ manifest.commands # <<>>)
       => \A c \in CmdNames : \A t \in UnknownTokens :
             Count(manifest.commands[c], t) >= Count(document.commands[c], t)
    /\ (/\ WellFormedNodeProfile /\ LoadOver
        /\ P_executables \in DOMAIN document.nodes
        /\ document.executables = <<>>)
       => pc = "Ready"

\* C11 witness: a load is Ready, one of its commands has been rewritten and
\* still holds a token that no table entry declares.
C11_Witness ==
    /\ kind = "node"
    /\ pc = "Ready"
    /\ \E c \in CmdNames : \E t \in UnknownTokens :
          /\ Count(document.commands[c], t) > 0
          /\ Count(manifest.commands[c], t) > 0
          /\ manifest.commands[c] # document.commands[c]

\* C12: after a successful node-profile load the serial module is an
\* absolute path that lies under <workspace>/serial, whatever the manifest
\* declares as module.
C12_SerialModuleUnderSerialDir ==
    (kind = "node" /\ pc = "Ready")
    => /\ isabs(manifest.module)
       /\ LiesInside(TempDir \o <<SEP>> \o SERIAL_SUBDIR, normpath(manifest.module))

\* the paths a successful load has resolved into the workspace
ResolvedPaths ==
    { firmwares[i] : i \in DOMAIN firmwares }
      \cup (IF manifest.module # <<>> THEN {manifest.module} ELSE {})

\* C13: from mkdtemp until clean() no step of a load, successful or
\* failed, removes the workspace directory; once clean() has returned, the
\* directory is gone and so is every file or directory inside it, the
\* resolved paths included.
C13_WorkspaceLifetime ==
    /\ (pc # "mkdtemp" /\ cleans = 0) => Entry(TempDir, "dir") \in fs
    /\ cleans >= 1
       => /\ \A e \in fs : ~LiesInside(TempDir, e.path)
          /\ \A q \in ResolvedPaths :
                LiesInside(TempDir, normpath(q)) => ~isfile(fs, q)

C13_Witness ==
    /\ kind = "experiment"
    /\ pc = "Ready"
    /\ cleans = 1
    /\ cleanErr = NoError
    /\ \E i \in DOMAIN firmwares : LiesInside(TempDir, normpath(firmwares[i]))
    /\ Entry(TempDir, "dir") \notin fs

\* C14: a clean() on a workspace that is already removed does not raise.
C14_SecondCleanDoesNotRaise ==
    cleans >= 2 => cleanErr = NoError

\* C15: after a load that failed once the workspace was created, the
\* caller can still release the workspace.
C15_FailedLoadCanBeReleased ==
    (pc = "Failed" /\ Entry(TempDir, "dir") \in fs) => ENABLED Clean

\* the entries of the declared firmware table that carry the id
EntriesOf(id) ==
    { i \in DOMAIN document.firmwares : document.firmwares[i].id = id }

Max(S) == CHOOSE n \in S : \A q \in S : q <= n

DuplicateFirmwareIds ==
    \E i, j \in DOMAIN document.firmwares :
       i < j /\ document.firmwares[i].id = document.firmwares[j].id

\* an experiment archive with nothing wrong in it
WellFormedExperiment ==
    /\ kind = "experiment"
    /\ AbsentMandatory = {}
    /\ ArchiveSafe
    /\ document.nodes = ExperimentTree
    /\ DeclaredFilesShipped

\* C19: a firmware table with duplicate ids is accepted: when the files of
\* all entries exist the load succeeds; the firmware map of a successful
\* load holds for each id one path, that of the last entry with the id, and
\* the file of every entry, overwritten ones included, has been found.
C19_DuplicateFirmwareIdsLastWins ==
    /\ (WellFormedExperiment /\ LoadOver) => pc = "Ready"
    /\ (kind = "experiment" /\ pc = "Ready")
       => /\ DOMAIN firmwares = { e.id : e \in Range(document.firmwares) }
          /\ \A id \in DOMAIN firmwares :
                firmwares[id] = FwPath(document.firmwares[Max(EntriesOf(id))])
          /\ cleans = 0
             => \A e \in Range(document.firmwares) : IsRegularFile(FwPath(e))

C19_Witness ==
    /\ kind = "experiment"
    /\ pc = "Ready"
    /\ DuplicateFirmwareIds
    /\ \E i \in DOMAIN document.firmwares :
          /\ i < Max(EntriesOf(document.firmwares[i].id))
          /\ firmwares[document.firmwares[i].id] # FwPath(document.firmwares[i])

\* one left-to-right pass over a command: each token of a declared
\* configuration file is replaced by its path, the inserted text is not
\* read again
RECURSIVE SinglePass(_, _)
SinglePass(cmd, table) ==
    IF cmd = <<>> THEN <<>>
    ELSE LET hits == { i \in DOMAIN table : StartsWith(cmd, ConfToken(table[i].id)) }
         IN  IF hits = {}
             THEN <<Head(cmd)>> \o SinglePass(Tail(cmd), table)
             ELSE LET e == table[CHOOSE i \in hits : TRUE]
                  IN  ConfPath(e)
                        \o SinglePass(Tail_(cmd, Len(ConfToken(e.id))), table)

Reverse(s) == [i \in 1..Len(s) |-> s[Len(s) + 1 - i]]

DistinctIds(table) ==
    \A i, j \in DOMAIN table : table[i].id = table[j].id => i = j

\* C18: the commands of a loaded node profile have each placeholder
\* replaced once: they are what one pass over the declared command gives,
\* and what processing the table in the opposite order gives.
C18_PlaceholdersReplacedOnce ==
    (/\ kind = "node" /\ pc = "Ready"
     /\ document.executables = <<>>
     /\ DistinctIds(document.configuration_files))
    => \A c \in CmdNames :
          /\ manifest.commands[c]
               = SinglePass(document.commands[c], document.configuration_files)
          /\ manifest.commands[c]
               = Resolved(document.commands[c],
                          Reverse(document.configuration_files), "#")

\* the stages of the load, numbered in the order of the state machine
StageNames ==
    << "Created", "ArchiveMaterialized", "MembersValidated", "Extracted",
       "ManifestParsed", "SchemaValidated", "ReferencesResolved",
       "PlaceholdersResolved", "Ready" >>

StageNo(name) == CHOOSE n \in DOMAIN StageNames : StageNames[n] = name

\* the stages that the statements run at a position work on: the loops over
\* the executables and the configuration files complete the path of an
\* entry and substitute its token in one iteration, the serial module and
\* the firmware table are references, the schedule is handed out as is
StagesOfStep(p) ==
    CASE p = "mkdtemp"             -> {StageNo("Created")}
      [] p = "save"                -> {StageNo("ArchiveMaterialized")}
      [] p = "validate_archive"    -> {StageNo("MembersValidated")}
      [] p = "safe_extract"        -> {StageNo("Extracted")}
      [] p = "extractall"          -> {StageNo("Extracted")}
      [] p = "read_manifest"       -> {StageNo("ManifestParsed")}
      [] p = "validate_manifest"   -> {StageNo("SchemaValidated")}
      [] p = "executables"         -> {StageNo("ReferencesResolved"),
                                       StageNo("PlaceholdersResolved")}
      [] p = "configuration_files" -> {StageNo("ReferencesResolved"),
                                       StageNo("PlaceholdersResolved")}
      [] p = "serial"              -> {StageNo("ReferencesResolved")}
      [] p = "firmwares"           -> {StageNo("ReferencesResolved")}
      [] p = "schedule"            -> {StageNo("Ready")}
      [] OTHER                     -> {StageNo("Ready")}

Min(S) == CHOOSE n \in S : \A q \in S : n <= q

\* the position that follows p in the loader of kind k
NextPc(k, p) ==
    CASE p = "mkdtemp"             -> "save"
      [] p = "save"                -> "validate_archive"
      [] p = "validate_archive"    -> "safe_extract"
      [] p = "safe_extract"        -> "extractall"
      [] p = "extractall"          -> "read_manifest"
      [] p = "read_manifest"       -> "validate_manifest"
      [] p = "validate_manifest"   -> IF k = "node" THEN "executables" ELSE "firmwares"
      [] p = "executables"         -> "configuration_files"
      [] p = "configuration_files" -> "serial"
      [] p = "serial"              -> "Ready"
      [] p = "firmwares"           -> "schedule"
      [] p = "schedule"            -> "Ready"
      [] OTHER                     -> p

Inside(f, dir) == { e \in f : LiesInside(dir, e.path) }

\* the two loaders hold different workspaces, neither inside the other
DistinctWorkspaces ==
    (temp_directory # <<>> /\ peer.temp_directory # <<>>)
    => /\ ~LiesInside(temp_directory, peer.temp_directory)
       /\ ~LiesInside(peer.temp_directory, temp_directory)

\* a load that is over has handed out what it handed out when run alone
OutcomeAsAlone ==
    /\ (solo # NoSolo /\ pc \in Terminal) => OutcomeOf(Private) = solo
    /\ (peer.solo # NoSolo /\ peer.pc \in Terminal) => OutcomeOf(peer) = peer.solo

\* a step of the running loader leaves the workspace of the other as it is
PeerWorkspaceUntouched ==
    (peer' = peer /\ peer.temp_directory # <<>>)
    => Inside(fs', peer.temp_directory) = Inside(fs, peer.temp_directory)

====
